---- MODULE Spec2Model ----
(***************************************************************************)
(* GIGS Marketplace API (src/main.py, src/schemas.py).                     *)
(*                                                                         *)
(* State: the three collections of the document store (user, gig,          *)
(* proposal), the store's identifier counter, the request in flight and    *)
(* the last response sent.  Every store round trip of a creation handler   *)
(* is one step, because the store is a separate process: nothing in the    *)
(* handlers makes the lookup and the insert one transaction.               *)
(*                                                                         *)
(* Text (names, titles, e-mail addresses, search patterns) is a sequence   *)
(* of one-character strings; identifiers on the wire are 24-digit hex      *)
(* strings; a request body is a function whose DOMAIN is the set of        *)
(* fields the caller sent.                                                 *)
(***************************************************************************)
EXTENDS Integers, Sequences, FiniteSets, TLC

VARIABLES users, gigs, proposals, nextOid, req, resp

vars == <<users, gigs, proposals, nextOid, req, resp>>

(***************************************************************************)
(* Bounds of the model.                                                    *)
(***************************************************************************)
\* Number of identifiers the store hands out before the model stops inserting.
MaxOid == 3

(***************************************************************************)
(* Python values.                                                          *)
(***************************************************************************)
\* None
None == "None"

\* The empty dict, also what a lookup that finds nothing is turned into.
EmptyDoc == [k \in {} |-> None]

\* Python truthiness of a document: None and {} are falsy.
Truthy(doc) == DOMAIN doc # {}

Min(a, b) == IF a < b THEN a ELSE b

\* d with the key k set to v (dict item assignment).
SetItem(d, k, v) == [x \in DOMAIN d \cup {k} |-> IF x = k THEN v ELSE d[x]]

\* d without the key k.
DelItem(d, k) == [x \in DOMAIN d \ {k} |-> d[x]]

(***************************************************************************)
(* bson.ObjectId: an identifier is a 12-byte value, written as 24 hex      *)
(* digits.  The model's identifiers are the numbers 0..9, written as 23    *)
(* fixed hex digits and one decimal digit; the letter in them may be       *)
(* written in either case, and both spellings parse to the same            *)
(* identifier, while str() always gives the lower-case one.                *)
(***************************************************************************)
OidRange == 0..9

\* str(ObjectId)
OidStr(n) == "0000000000000000000000a" \o ToString(n)

\* The upper-case spelling of the same identifier.
OidStrUpper(n) == "0000000000000000000000A" \o ToString(n)

\* ObjectId.is_valid(s)
ObjectIdIsValid(s) == \E n \in OidRange : s \in {OidStr(n), OidStrUpper(n)}

\* ObjectId(s), for a valid s
ObjectId(s) == CHOOSE n \in OidRange : s \in {OidStr(n), OidStrUpper(n)}

(***************************************************************************)
(* Text.                                                                   *)
(***************************************************************************)
\* str.lower() of one character of the model's alphabet.
LowerChar(c) == IF c = "A" THEN "a" ELSE IF c = "B" THEN "b" ELSE c

\* One pattern character against one subject character, with the option "i":
\* "." matches any character, every other character matches itself in
\* either case.
RegexCharMatch(p, c) == p = "." \/ LowerChar(p) = LowerChar(c)

\* {field: {"$regex": pat, "$options": "i"}}: the pattern is searched for
\* anywhere in the text.
RegexSearch(pat, text) ==
    \E off \in 0..(Len(text) - Len(pat)) :
        \A i \in 1..Len(pat) : RegexCharMatch(pat[i], text[off + i])

(***************************************************************************)
(* Schemas (src/schemas.py).                                               *)
(***************************************************************************)
\* Positions of the character c in the text t.
Positions(t, c) == {i \in 1..Len(t) : t[i] = c}

\* A dot-separated text none of whose parts is empty: "a", "a.b", not "",
\* ".a", "a." or "a..b".
DotAtom(t) ==
    /\ t # <<>>
    /\ t[1] # "."
    /\ t[Len(t)] # "."
    /\ \A i \in 1..(Len(t) - 1) : ~(t[i] = "." /\ t[i + 1] = ".")

\* EmailStr declared as a plain str: every text is accepted.
EmailStr_AnyStr(e) == Len(e) >= 0

\* EmailStr: exactly one "@", a dot-atom before it, and after it a domain of
\* at least two non-empty labels.
EmailStr(e) ==
    /\ Cardinality(Positions(e, "@")) = 1
    /\ LET at == CHOOSE i \in Positions(e, "@") : TRUE
           domain == SubSeq(e, at + 1, Len(e))
       IN  /\ DotAtom(SubSeq(e, 1, at - 1))
           /\ DotAtom(domain)
           /\ Positions(domain, ".") # {}

\* RolePattern matched without regard to letter case.
RolePattern_IgnoreCase(r) == r \in {"creator", "client", "Creator", "Client"}

\* pattern="^(creator|client)$"
RolePattern(r) == r \in {"creator", "client"}

\* pattern="^(pending|accepted|rejected)$"
StatusPattern(s) == s \in {"pending", "accepted", "rejected"}

\* Validation of a request body against User.
ValidUser(b) ==
    /\ {"name", "email", "role"} \subseteq DOMAIN b
    /\ EmailStr(b.email)
    /\ RolePattern(b.role)

\* The User model built from a valid body: absent fields get their defaults.
User(b) ==
    [name |-> b.name, email |-> b.email, role |-> b.role, bio |-> None,
     skills |-> <<>>, avatar_url |-> None, is_active |-> TRUE]

\* Validation of a request body against Gig.
ValidGig(b) ==
    /\ {"title", "description", "category", "price", "creator_id"} \subseteq DOMAIN b
    /\ b.price >= 0

\* The Gig model built from a valid body.  creator_name is Optional and is
\* kept only when the caller sent it.
Gig(b) == b

\* Validation of a request body against Proposal.
ValidProposal(b) ==
    /\ {"gig_id", "client_id", "message"} \subseteq DOMAIN b
    /\ ("offered_price" \in DOMAIN b => b.offered_price >= 0)
    /\ ("status" \in DOMAIN b => StatusPattern(b.status))

\* The Proposal model built from a valid body.
Proposal(b) ==
    [gig_id |-> b.gig_id, client_id |-> b.client_id, message |-> b.message,
     offered_price |-> IF "offered_price" \in DOMAIN b THEN b.offered_price ELSE None,
     status |-> IF "status" \in DOMAIN b THEN b.status ELSE "pending"]

(***************************************************************************)
(* The document store (the database module: db, create_document,           *)
(* get_documents).  A collection is a function from the identifiers of its *)
(* documents to the documents.                                              *)
(***************************************************************************)
\* The fields the store fills with native date values.  A value of such a
\* field is a one-field record named after its Python type:
\* [datetime |-> t] is a datetime, [str |-> s] the text it was turned into.
TimeFields == {"created_at", "updated_at"}

Datetime(t) == [datetime |-> t]

\* datetime.isoformat()
IsoFormat(t) == "2026-01-01T00:00:0" \o ToString(t)

\* hasattr(v, "isoformat"), for the value v of the field k
HasIsoformat(k, v) == k \in TimeFields /\ DOMAIN v = {"datetime"}

\* db[coll].find_one({"_id": oid}): the document, or nothing.
FindOne(coll, oid) == IF oid \in DOMAIN coll THEN coll[oid] ELSE EmptyDoc

\* create_document(coll, data): the collection after the insert of data
\* under the new identifier oid, stamped with the time of the insert.
CreateDocument(coll, oid, data) ==
    [x \in DOMAIN coll \cup {oid} |->
        IF x = oid
        THEN [k \in DOMAIN data \cup {"_id"} \cup TimeFields |->
                 IF k = "_id" THEN oid
                 ELSE IF k \in TimeFields THEN Datetime(oid)
                 ELSE data[k]]
        ELSE coll[x]]

\* One clause of a "$or" list, {field: {"$regex": pat, "$options": "i"}},
\* against a document.
ClauseMatches(doc, clause) ==
    /\ clause.field \in DOMAIN doc
    /\ RegexSearch(clause.regex, doc[clause.field])

\* A query filter against a document: every key of the filter must hold;
\* "$or" holds when one of its clauses does, any other key is equality.
Matches(doc, filt) ==
    \A k \in DOMAIN filt :
        IF k = "$or"
        THEN \E i \in 1..Len(filt[k]) : ClauseMatches(doc, filt[k][i])
        ELSE k \in DOMAIN doc /\ doc[k] = filt[k]

\* The elements of a set of identifiers in increasing order, which is the
\* order of insertion.
RECURSIVE InOrder(_)
InOrder(S) ==
    IF S = {} THEN <<>>
    ELSE LET m == CHOOSE x \in S : \A y \in S : x <= y
         IN  <<m>> \o InOrder(S \ {m})

\* get_documents(coll, filt, limit): the documents that match, in store
\* order, at most limit of them.
GetDocuments(coll, filt, limit) ==
    LET ids == InOrder({x \in DOMAIN coll : Matches(coll[x], filt)})
    IN  [i \in 1..Min(Len(ids), limit) |-> coll[ids[i]]]

(***************************************************************************)
(* serialize_doc (src/main.py).                                            *)
(***************************************************************************)
\* The outcome of a call that raised KeyError.
KeyError == [error |-> "KeyError"]

\* serialize_doc that leaves a document without "_id" as it is.
serialize_doc_Tolerant(doc) ==
    IF "_id" \notin DOMAIN doc THEN doc
    ELSE [k \in (DOMAIN doc \ {"_id"}) \cup {"id"} |->
             IF k = "id" THEN OidStr(doc["_id"])
             ELSE IF HasIsoformat(k, doc[k]) THEN [str |-> IsoFormat(doc[k].datetime)]
             ELSE doc[k]]

\* serialize_doc(doc): a falsy doc is returned as it is; doc.pop("_id")
\* raises KeyError when there is no "_id"; otherwise "_id" becomes the text
\* "id" and every datetime becomes its ISO text.
serialize_doc(doc) ==
    IF ~Truthy(doc) THEN doc
    ELSE IF "_id" \notin DOMAIN doc THEN KeyError
    ELSE [k \in (DOMAIN doc \ {"_id"}) \cup {"id"} |->
             IF k = "id" THEN OidStr(doc["_id"])
             ELSE IF HasIsoformat(k, doc[k]) THEN [str |-> IsoFormat(doc[k].datetime)]
             ELSE doc[k]]

\* [serialize_doc(d) for d in docs]
SerializeAll(docs) == [i \in 1..Len(docs) |-> serialize_doc(docs[i])]

\* limit=100
ListLimit == 100

(***************************************************************************)
(* Inputs.  Each set holds one well-formed request, its variations, and    *)
(* the same request with one defect at a time.                             *)
(***************************************************************************)
\* Identifier strings a caller may send: empty, malformed, the upper-case
\* spelling of the first identifier, and the identifiers the store can
\* issue (well-formed, and unknown to the store until it issues them).
IdInputs ==
    {"", "not-an-id", OidStrUpper(1)} \cup {OidStr(n) : n \in 1..MaxOid}

GoodEmail == <<"a", "@", "b", ".", "a">>

BaseUser == [name |-> <<"A", "b">>, email |-> GoodEmail, role |-> "creator"]

UserInputs ==
    {BaseUser}
    \cup {[BaseUser EXCEPT !.role = r] : r \in {"admin", "Creator", ""}}
    \cup {[BaseUser EXCEPT !.name = <<>>, !.role = "client"]}
    \cup {[BaseUser EXCEPT !.email = e] : e \in {<<>>, <<"a", "b">>, <<"a", "@", "b">>, <<"@", "b", ".", "a">>}}
    \cup {DelItem(BaseUser, k) : k \in {"name", "email", "role"}}

BaseGig ==
    [title |-> <<"A", "b">>, description |-> <<"b">>, category |-> "design",
     price |-> 50, creator_id |-> OidStr(1)]

GigInputs ==
    {[g EXCEPT !.creator_id = c] :
        g \in {BaseGig,
               [BaseGig EXCEPT !.title = <<"b">>],
               [BaseGig EXCEPT !.category = "dev"],
               SetItem(BaseGig, "creator_name", <<"b">>)},
        c \in IdInputs}
    \cup {[BaseGig EXCEPT !.price = -1]}
    \cup {DelItem(BaseGig, k) : k \in DOMAIN BaseGig}

BaseProposal == [gig_id |-> OidStr(2), client_id |-> OidStr(1), message |-> <<"b">>]

ProposalInputs ==
    {[BaseProposal EXCEPT !.gig_id = g, !.client_id = c] : g \in IdInputs, c \in IdInputs}
    \cup {SetItem(BaseProposal, "status", st) : st \in {"accepted", "done"}}
    \cup {SetItem(BaseProposal, "offered_price", -1)}
    \cup {DelItem(BaseProposal, k) : k \in DOMAIN BaseProposal}

\* Query parameters of GET /api/gigs: each may be absent, empty or given.
ListGigsInputs ==
    LET cats == {[k \in {} |-> None]} \cup {[category |-> c] : c \in {"", "design"}}
        qs   == {[k \in {} |-> None]} \cup {[q |-> t] : t \in {<<>>, <<"a">>, <<"B">>, <<".">>}}
    IN  {[k \in DOMAIN c \cup DOMAIN t |-> IF k = "category" THEN c[k] ELSE t[k]] :
            c \in cats, t \in qs}

\* Query parameters of GET /api/proposals.
ListProposalsInputs ==
    LET gs == {[k \in {} |-> None]}
              \cup {[gig_id |-> i] : i \in {"", "not-an-id", OidStr(2), OidStr(3)}}
        cs == {[k \in {} |-> None]}
              \cup {[client_id |-> i] : i \in {"not-an-id", OidStr(1), OidStrUpper(1)}}
    IN  {[k \in DOMAIN g \cup DOMAIN c |-> IF k = "gig_id" THEN g[k] ELSE c[k]] :
            g \in gs, c \in cs}

(***************************************************************************)
(* State.                                                                  *)
(***************************************************************************)
\* No request in flight.
Idle == [op |-> "idle"]

\* No response waiting to be sent.
NoResp == [op |-> "none"]

\* HTTPException(status_code=404, detail=...), and the 422 of a body the
\* schema rejects.
Failure(op, input, status, detail) ==
    [op |-> op, input |-> input, status |-> status, detail |-> detail]

\* return {"id": ...}
Created(op, input, id) == [op |-> op, input |-> input, status |-> 200, id |-> id]

\* return [serialize_doc(d) for d in docs]
Listed(op, input, body) == [op |-> op, input |-> input, status |-> 200, body |-> body]

Init ==
    /\ users = [x \in {} |-> EmptyDoc]
    /\ gigs = [x \in {} |-> EmptyDoc]
    /\ proposals = [x \in {} |-> EmptyDoc]
    /\ nextOid = 1
    /\ req = Idle
    /\ resp = NoResp

\* The server can take a request: none is in flight and the last response
\* has been sent.
Ready == req = Idle /\ resp = NoResp

(***************************************************************************)
(* POST /api/users                                                         *)
(***************************************************************************)
create_user(b) ==
    /\ Ready
    /\ IF ~ValidUser(b)
       THEN /\ resp' = Failure("create_user", b, 422, "validation error")
            /\ UNCHANGED <<users, gigs, proposals, nextOid, req>>
       ELSE /\ nextOid <= MaxOid
            /\ users' = CreateDocument(users, nextOid, User(b))
            /\ nextOid' = nextOid + 1
            /\ resp' = Created("create_user", b, OidStr(nextOid))
            /\ UNCHANGED <<gigs, proposals, req>>

(***************************************************************************)
(* POST /api/gigs                                                          *)
(***************************************************************************)
\* Resolve with a lookup whose filter matches every document: find_one
\* returns the first document of the collection when the identifier is not
\* there.
Resolve_FirstDoc(coll, id) ==
    IF ObjectIdIsValid(id) /\ ObjectId(id) \in DOMAIN coll THEN coll[ObjectId(id)]
    ELSE IF DOMAIN coll # {} THEN coll[CHOOSE x \in DOMAIN coll : \A y \in DOMAIN coll : x <= y]
    ELSE EmptyDoc

\* db[coll].find_one({"_id": ObjectId(id)}) if ObjectId.is_valid(id) else None
Resolve(coll, id) ==
    IF ObjectIdIsValid(id) THEN FindOne(coll, ObjectId(id)) ELSE EmptyDoc

\* WithCreatorName that keeps the creator_name the caller sent.
WithCreatorName_Trusting(gig, creator) ==
    IF "creator_name" \in DOMAIN gig THEN gig ELSE SetItem(gig, "creator_name", creator.name)

\* gig.creator_name = creator.get("name")
WithCreatorName(gig, creator) == SetItem(gig, "creator_name", creator.name)

\* The lookup of the creator, up to the call of create_document.
create_gig_lookup(b) ==
    /\ Ready
    /\ IF ~ValidGig(b)
       THEN /\ resp' = Failure("create_gig", b, 422, "validation error")
            /\ UNCHANGED <<users, gigs, proposals, nextOid, req>>
       ELSE LET creator == Resolve(users, Gig(b).creator_id)
            IN  IF ~Truthy(creator)
                THEN /\ resp' = Failure("create_gig", b, 404, "Creator not found")
                     /\ UNCHANGED <<users, gigs, proposals, nextOid, req>>
                ELSE /\ nextOid <= MaxOid
                     /\ req' = [op |-> "create_gig", input |-> b,
                                gig |-> WithCreatorName(Gig(b), creator)]
                     /\ UNCHANGED <<users, gigs, proposals, nextOid, resp>>

\* create_gig_insert that looks the creator up again and refuses when the
\* creator is gone.
create_gig_insert_Revalidating ==
    /\ req.op = "create_gig"
    /\ IF Truthy(Resolve(users, req.gig.creator_id))
       THEN /\ gigs' = CreateDocument(gigs, nextOid, req.gig)
            /\ nextOid' = nextOid + 1
            /\ resp' = Created("create_gig", req.input, OidStr(nextOid))
       ELSE /\ resp' = Failure("create_gig", req.input, 404, "Creator not found")
            /\ UNCHANGED <<gigs, nextOid>>
    /\ req' = Idle
    /\ UNCHANGED <<users, proposals>>

\* create_document("gig", gig) and the return.
create_gig_insert ==
    /\ req.op = "create_gig"
    /\ gigs' = CreateDocument(gigs, nextOid, req.gig)
    /\ nextOid' = nextOid + 1
    /\ resp' = Created("create_gig", req.input, OidStr(nextOid))
    /\ req' = Idle
    /\ UNCHANGED <<users, proposals>>

(***************************************************************************)
(* GET /api/gigs                                                           *)
(***************************************************************************)
\* Python truthiness of a query parameter: absent and empty are falsy.  q
\* is a text, the other parameters are strings.
Given(params, k) ==
    /\ k \in DOMAIN params
    /\ IF k = "q" THEN params[k] # <<>> ELSE params[k] # ""

\* The "$or" list built from q.
OrClauses(q) ==
    <<[field |-> "title", regex |-> q],
      [field |-> "description", regex |-> q],
      [field |-> "creator_name", regex |-> q]>>

\* The filter list_gigs builds from its parameters.
GigFilter(params) ==
    LET f1 == IF Given(params, "category")
              THEN SetItem(EmptyDoc, "category", params.category)
              ELSE EmptyDoc
    IN  IF Given(params, "q") THEN SetItem(f1, "$or", OrClauses(params.q)) ELSE f1

list_gigs(params) ==
    /\ Ready
    /\ resp' = Listed("list_gigs", params,
                      SerializeAll(GetDocuments(gigs, GigFilter(params), ListLimit)))
    /\ UNCHANGED <<users, gigs, proposals, nextOid, req>>

(***************************************************************************)
(* POST /api/proposals                                                     *)
(***************************************************************************)
\* create_proposal_gig with the two checks in the other order.
create_proposal_gig_ClientFirst(b) ==
    /\ Ready
    /\ IF ~ValidProposal(b)
       THEN /\ resp' = Failure("create_proposal", b, 422, "validation error")
            /\ UNCHANGED <<users, gigs, proposals, nextOid, req>>
       ELSE IF ~Truthy(Resolve(users, Proposal(b).client_id))
       THEN /\ resp' = Failure("create_proposal", b, 404, "Client not found")
            /\ UNCHANGED <<users, gigs, proposals, nextOid, req>>
       ELSE IF ~Truthy(Resolve(gigs, Proposal(b).gig_id))
       THEN /\ resp' = Failure("create_proposal", b, 404, "Gig not found")
            /\ UNCHANGED <<users, gigs, proposals, nextOid, req>>
       ELSE /\ nextOid <= MaxOid
            /\ req' = [op |-> "create_proposal", step |-> "client",
                       input |-> b, p |-> Proposal(b)]
            /\ UNCHANGED <<users, gigs, proposals, nextOid, resp>>

\* The lookup of the gig.
create_proposal_gig(b) ==
    /\ Ready
    /\ IF ~ValidProposal(b)
       THEN /\ resp' = Failure("create_proposal", b, 422, "validation error")
            /\ UNCHANGED <<users, gigs, proposals, nextOid, req>>
       ELSE LET gig == Resolve(gigs, Proposal(b).gig_id)
            IN  IF ~Truthy(gig)
                THEN /\ resp' = Failure("create_proposal", b, 404, "Gig not found")
                     /\ UNCHANGED <<users, gigs, proposals, nextOid, req>>
                ELSE /\ nextOid <= MaxOid
                     /\ req' = [op |-> "create_proposal", step |-> "client",
                                input |-> b, p |-> Proposal(b)]
                     /\ UNCHANGED <<users, gigs, proposals, nextOid, resp>>

\* create_proposal_client without the check of what the lookup found.
create_proposal_client_Unchecked ==
    /\ req.op = "create_proposal"
    /\ req.step = "client"
    /\ req' = [req EXCEPT !.step = "insert"]
    /\ UNCHANGED <<users, gigs, proposals, nextOid, resp>>

\* The lookup of the client.
create_proposal_client ==
    /\ req.op = "create_proposal"
    /\ req.step = "client"
    /\ LET client == Resolve(users, req.p.client_id)
       IN  IF ~Truthy(client)
           THEN /\ resp' = Failure("create_proposal", req.input, 404, "Client not found")
                /\ req' = Idle
           ELSE /\ req' = [req EXCEPT !.step = "insert"]
                /\ resp' = resp
    /\ UNCHANGED <<users, gigs, proposals, nextOid>>

\* create_document("proposal", p) and the return.
create_proposal_insert ==
    /\ req.op = "create_proposal"
    /\ req.step = "insert"
    /\ proposals' = CreateDocument(proposals, nextOid, req.p)
    /\ nextOid' = nextOid + 1
    /\ resp' = Created("create_proposal", req.input, OidStr(nextOid))
    /\ req' = Idle
    /\ UNCHANGED <<users, gigs>>

(***************************************************************************)
(* GET /api/proposals                                                      *)
(***************************************************************************)
\* ProposalFilter without ObjectId.is_valid: every non-empty parameter
\* filters.
ProposalFilter_Unvalidated(params) ==
    LET f1 == IF Given(params, "gig_id")
              THEN SetItem(EmptyDoc, "gig_id", params.gig_id)
              ELSE EmptyDoc
    IN  IF Given(params, "client_id")
        THEN SetItem(f1, "client_id", params.client_id)
        ELSE f1

\* The filter list_proposals builds from its parameters.
ProposalFilter(params) ==
    LET f1 == IF Given(params, "gig_id") /\ ObjectIdIsValid(params.gig_id)
              THEN SetItem(EmptyDoc, "gig_id", params.gig_id)
              ELSE EmptyDoc
    IN  IF Given(params, "client_id") /\ ObjectIdIsValid(params.client_id)
        THEN SetItem(f1, "client_id", params.client_id)
        ELSE f1

list_proposals(params) ==
    /\ Ready
    /\ resp' = Listed("list_proposals", params,
                      SerializeAll(GetDocuments(proposals, ProposalFilter(params), ListLimit)))
    /\ UNCHANGED <<users, gigs, proposals, nextOid, req>>

(***************************************************************************)
(* The framework and the world outside.                                    *)
(***************************************************************************)
\* The response is sent to the caller and the server waits for the next
\* request.
send_response ==
    /\ resp # NoResp
    /\ resp' = NoResp
    /\ UNCHANGED <<users, gigs, proposals, nextOid, req>>

\* A user is removed from the store by its administrator, at any moment
\* between two round trips of a handler.
remove_user(oid) ==
    /\ resp = NoResp
    /\ oid \in DOMAIN users
    /\ users' = [x \in DOMAIN users \ {oid} |-> users[x]]
    /\ UNCHANGED <<gigs, proposals, nextOid, req, resp>>

\* A gig is removed from the store by its administrator.
remove_gig(oid) ==
    /\ resp = NoResp
    /\ oid \in DOMAIN gigs
    /\ gigs' = [x \in DOMAIN gigs \ {oid} |-> gigs[x]]
    /\ UNCHANGED <<users, proposals, nextOid, req, resp>>

(***************************************************************************)
(* Specifications.  Spec is the program alone: its three entity types are  *)
(* created and never updated or deleted.  SpecAdmin adds the store's       *)
(* administrator, who may remove users and gigs.                           *)
(***************************************************************************)
Next ==
    \/ \E b \in UserInputs : create_user(b)
    \/ \E b \in GigInputs : create_gig_lookup(b)
    \/ create_gig_insert
    \/ \E params \in ListGigsInputs : list_gigs(params)
    \/ \E b \in ProposalInputs : create_proposal_gig(b)
    \/ create_proposal_client
    \/ create_proposal_insert
    \/ \E params \in ListProposalsInputs : list_proposals(params)
    \/ send_response

Spec == Init /\ [][Next]_vars

NextAdmin ==
    \/ Next
    \/ \E oid \in 1..MaxOid : remove_user(oid)
    \/ \E oid \in 1..MaxOid : remove_gig(oid)

SpecAdmin == Init /\ [][NextAdmin]_vars

(***************************************************************************)
(* Vocabulary of the properties.                                           *)
(***************************************************************************)
\* The identifier string id names a document of the collection.
Refers(coll, id) == \E n \in DOMAIN coll : id \in {OidStr(n), OidStrUpper(n)}

\* The text q occurs in the text t, letter case ignored.
ContainsCI(q, t) ==
    \E off \in 0..(Len(t) - Len(q)) :
        \A i \in 1..Len(q) : LowerChar(q[i]) = LowerChar(t[off + i])

\* The "id" fields of a listing.
IdsOf(body) == {body[i].id : i \in 1..Len(body)}

\* The input of the creation call that this step starts or answers.
CallInput(r, rs) == IF r.op \in {"create_gig", "create_proposal"} THEN r.input ELSE rs.input

(***************************************************************************)
(* C1.  A create_gig call whose creator_id names no user (malformed, or     *)
(* well-formed and unknown) is answered 404 "Creator not found", and the    *)
(* gig collection and its listing are what they were.                       *)
(***************************************************************************)
C1_CreatorNotFound ==
    [][(Ready /\ (req'.op = "create_gig" \/ resp'.op = "create_gig"))
        => LET b == CallInput(req', resp')
           IN  (ValidGig(b) /\ ~Refers(users, b.creator_id))
                 => /\ req' = Idle
                    /\ resp'.status = 404
                    /\ resp'.detail = "Creator not found"
                    /\ gigs' = gigs
                    /\ SerializeAll(GetDocuments(gigs', EmptyDoc, ListLimit))
                         = SerializeAll(GetDocuments(gigs, EmptyDoc, ListLimit))]_vars

\* A well-formed creator_id that names a gig, not a user, was refused while
\* the store held gigs.
C1_Witness ==
    /\ resp.op = "create_gig"
    /\ resp.status = 404
    /\ Refers(gigs, resp.input.creator_id)

(***************************************************************************)
(* C2.  Every persisted gig carries the name of the user its creator_id     *)
(* names, whatever creator_name the caller sent.                            *)
(***************************************************************************)
C2_CreatorNameFromUser ==
    \A g \in DOMAIN gigs :
        \E u \in DOMAIN users :
            /\ gigs[g].creator_id \in {OidStr(u), OidStrUpper(u)}
            /\ gigs[g].creator_name = users[u].name

\* A gig was created for a caller who sent another creator_name.
C2_Witness ==
    /\ resp.op = "create_gig"
    /\ resp.status = 200
    /\ "creator_name" \in DOMAIN resp.input
    /\ \E g \in DOMAIN gigs :
          /\ OidStr(g) = resp.id
          /\ gigs[g].creator_name # resp.input.creator_name

(***************************************************************************)
(* C3.  create_proposal checks the gig first: an unknown gig_id is answered *)
(* "Gig not found" whatever client_id is, and "Client not found" is         *)
(* answered only when gig_id names a gig and client_id names no user.       *)
(***************************************************************************)
C3_GigCheckedFirst ==
    (resp.op = "create_proposal" /\ ValidProposal(resp.input))
      => /\ ~Refers(gigs, resp.input.gig_id)
              => (resp.status = 404 /\ resp.detail = "Gig not found")
         /\ (resp.status = 404 /\ resp.detail = "Client not found")
              => (Refers(gigs, resp.input.gig_id) /\ ~Refers(users, resp.input.client_id))
         /\ (Refers(gigs, resp.input.gig_id) /\ ~Refers(users, resp.input.client_id))
              => (resp.status = 404 /\ resp.detail = "Client not found")

\* Both identifiers unknown, in a store that holds users and gigs.
C3_Witness ==
    /\ resp.op = "create_proposal"
    /\ resp.status = 404
    /\ resp.detail = "Gig not found"
    /\ ObjectIdIsValid(resp.input.gig_id)
    /\ ~Refers(users, resp.input.client_id)
    /\ DOMAIN gigs # {}

(***************************************************************************)
(* C4.  With no record removed, every gig's creator_id names a user, every  *)
(* proposal's gig_id names a gig and its client_id names a user; and a      *)
(* create_proposal call answered 404 persists no proposal.                  *)
(***************************************************************************)
ReferentialIntegrity ==
    /\ \A g \in DOMAIN gigs : Refers(users, gigs[g].creator_id)
    /\ \A p \in DOMAIN proposals :
          /\ Refers(gigs, proposals[p].gig_id)
          /\ Refers(users, proposals[p].client_id)

C4_ReferentialIntegrity ==
    /\ []ReferentialIntegrity
    /\ [][(resp'.op = "create_proposal" /\ resp'.status = 404)
            => (proposals' = proposals /\ nextOid' = nextOid)]_vars

\* A proposal was created: it names a gig and a user of the store.
C4_Witness ==
    /\ resp.op = "create_proposal"
    /\ resp.status = 200
    /\ \E p \in DOMAIN proposals :
          /\ OidStr(p) = resp.id
          /\ Refers(gigs, proposals[p].gig_id)
          /\ Refers(users, proposals[p].client_id)

(***************************************************************************)
(* C5.  For a body whose name and e-mail are accepted, create_user answers  *)
(* 200 with a non-empty identifier, under which the user is stored, when    *)
(* role is "creator" or "client"; any other role, or none, is answered 422  *)
(* and stores no user.                                                      *)
(***************************************************************************)
C5_RoleDecides ==
    [][(Ready /\ resp'.op = "create_user")
        => LET b == resp'.input
           IN  ({"name", "email"} \subseteq DOMAIN b /\ b.email = GoodEmail)
                 => IF "role" \in DOMAIN b /\ b.role \in {"creator", "client"}
                    THEN /\ resp'.status = 200
                         /\ resp'.id # ""
                         /\ \E u \in DOMAIN users' \ DOMAIN users :
                               /\ OidStr(u) = resp'.id
                               /\ users'[u].role = b.role
                    ELSE /\ resp'.status = 422
                         /\ users' = users]_vars

\* A creator was stored and a client after it.
C5_Witness ==
    /\ resp.op = "create_user"
    /\ resp.status = 200
    /\ resp.input.role = "client"
    /\ \E u \in DOMAIN users : users[u].role = "creator"

(***************************************************************************)
(* C6.  As claimed: create_user answers 422, and stores no user, whenever   *)
(* name or email is missing or empty.                                       *)
(***************************************************************************)
MissingOrEmpty(b, k) == k \notin DOMAIN b \/ b[k] = <<>>

C6_EmptyNameRejected ==
    [][(Ready /\ resp'.op = "create_user")
        => LET b == resp'.input
           IN  (MissingOrEmpty(b, "name") \/ MissingOrEmpty(b, "email"))
                 => (resp'.status = 422 /\ users' = users)]_vars

(***************************************************************************)
(* C6, amended.  create_user answers 422, and stores no user, whenever name *)
(* or email is missing or email is empty; an empty name is accepted and     *)
(* stored.                                                                  *)
(***************************************************************************)
C6_MissingRejected ==
    [][(Ready /\ resp'.op = "create_user")
        => LET b == resp'.input
           IN  /\ ("name" \notin DOMAIN b \/ MissingOrEmpty(b, "email"))
                    => (resp'.status = 422 /\ users' = users)
               /\ ("name" \in DOMAIN b /\ b.name = <<>> /\ ValidUser(b))
                    => /\ resp'.status = 200
                       /\ \E u \in DOMAIN users' \ DOMAIN users : users'[u].name = <<>>]_vars

\* A body with an empty e-mail address was refused while the store held a
\* user with an empty name.
C6_Witness ==
    /\ resp.op = "create_user"
    /\ resp.status = 422
    /\ "email" \in DOMAIN resp.input
    /\ resp.input.email = <<>>
    /\ \E u \in DOMAIN users : users[u].name = <<>>

(***************************************************************************)
(* C7.  As claimed: list_gigs with a category and a q returns the gigs of   *)
(* that category in which title, description or creator_name contains q,    *)
(* letter case ignored: only those, and within the cap all of them.         *)
(***************************************************************************)
C7_SubstringSearch ==
    (resp.op = "list_gigs" /\ Given(resp.input, "category") /\ Given(resp.input, "q"))
      => LET want == {g \in DOMAIN gigs :
                        /\ gigs[g].category = resp.input.category
                        /\ \/ ContainsCI(resp.input.q, gigs[g].title)
                           \/ ContainsCI(resp.input.q, gigs[g].description)
                           \/ ContainsCI(resp.input.q, gigs[g].creator_name)}
         IN  /\ resp.status = 200
             /\ IdsOf(resp.body) \subseteq {OidStr(g) : g \in want}
             /\ Cardinality(want) <= ListLimit
                  => IdsOf(resp.body) = {OidStr(g) : g \in want}

(***************************************************************************)
(* C8.  As claimed: serialize_doc applied to a record it has produced       *)
(* returns that record.                                                     *)
(***************************************************************************)
C8_Idempotent ==
    resp.op \in {"list_gigs", "list_proposals"}
      => \A i \in 1..Len(resp.body) : serialize_doc(resp.body[i]) = resp.body[i]

(***************************************************************************)
(* C8, amended.  A record serialize_doc has produced has an "id", no "_id"  *)
(* and no datetime, and serialize_doc applied to it raises KeyError; only   *)
(* the empty record is returned as it is.                                   *)
(***************************************************************************)
C8_SecondCallRaises ==
    /\ serialize_doc(EmptyDoc) = EmptyDoc
    /\ resp.op \in {"list_gigs", "list_proposals"}
         => \A i \in 1..Len(resp.body) :
               LET d == resp.body[i]
               IN  /\ "id" \in DOMAIN d
                   /\ "_id" \notin DOMAIN d
                   /\ \A k \in DOMAIN d : ~HasIsoformat(k, d[k])
                   /\ TimeFields \subseteq DOMAIN d
                   /\ serialize_doc(d) = KeyError

\* A listing returned a serialized gig.
C8_Witness ==
    /\ resp.op = "list_gigs"
    /\ Len(resp.body) > 0
    /\ resp.body[1].created_at = [str |-> IsoFormat(ObjectId(resp.body[1].id))]

(***************************************************************************)
(* C9.  list_proposals always answers 200.  An empty or malformed gig_id or *)
(* client_id does not filter: the answer is that of the call without it.    *)
(* A well-formed one keeps the proposals whose stored field is that very    *)
(* string.                                                                  *)
(***************************************************************************)
\* The parameters without those that are empty or malformed.
WellFormedOnly(params) ==
    LET keep == {k \in DOMAIN params :
                    \E n \in OidRange : params[k] \in {OidStr(n), OidStrUpper(n)}}
    IN  [k \in keep |-> params[k]]

C9_MalformedIgnored ==
    resp.op = "list_proposals"
      => LET f == WellFormedOnly(resp.input)
             want == {p \in DOMAIN proposals :
                        \A k \in DOMAIN f : proposals[p][k] = f[k]}
         IN  /\ resp.status = 200
             /\ IdsOf(resp.body) \subseteq {OidStr(p) : p \in want}
             /\ Cardinality(want) <= ListLimit
                  => IdsOf(resp.body) = {OidStr(p) : p \in want}
             /\ resp.body = SerializeAll(GetDocuments(proposals, ProposalFilter(f), ListLimit))

\* A malformed gig_id beside a well-formed client_id returned the client's
\* proposal.
C9_Witness ==
    /\ resp.op = "list_proposals"
    /\ {"gig_id", "client_id"} \subseteq DOMAIN resp.input
    /\ resp.input.gig_id = "not-an-id"
    /\ ObjectIdIsValid(resp.input.client_id)
    /\ Len(resp.body) > 0

(***************************************************************************)
(* C10.  Lookup and insert are separate round trips.  Once the lookups of   *)
(* a creation call have succeeded, the removal of the user or gig they      *)
(* found changes nothing: the next round trip of the call is never a 404    *)
(* for the removed record, and its insert stores the gig or proposal and    *)
(* answers 200, so a record with a dangling reference is stored.            *)
(***************************************************************************)
C10_NoRevalidation ==
    [][/\ (req.op = "create_gig" /\ ~Refers(users, req.gig.creator_id) /\ req' # req)
          => /\ resp'.status = 200
             /\ \E g \in DOMAIN gigs' \ DOMAIN gigs :
                   /\ OidStr(g) = resp'.id
                   /\ gigs'[g].creator_id = req.gig.creator_id
       /\ (req.op = "create_proposal" /\ req.step = "client"
             /\ ~Refers(gigs, req.p.gig_id) /\ req' # req)
          => IF Refers(users, req.p.client_id)
             THEN req'.op = "create_proposal" /\ req'.step = "insert"
             ELSE resp'.detail = "Client not found"
       /\ (req.op = "create_proposal" /\ req.step = "insert"
             /\ (~Refers(gigs, req.p.gig_id) \/ ~Refers(users, req.p.client_id))
             /\ req' # req)
          => /\ resp'.status = 200
             /\ \E p \in DOMAIN proposals' \ DOMAIN proposals :
                   /\ OidStr(p) = resp'.id
                   /\ proposals'[p].gig_id = req.p.gig_id
                   /\ proposals'[p].client_id = req.p.client_id]_vars

\* A gig was created for a creator who is no longer in the store.
C10_Witness ==
    /\ resp.op = "create_gig"
    /\ resp.status = 200
    /\ \E g \in DOMAIN gigs :
          /\ OidStr(g) = resp.id
          /\ ~Refers(users, gigs[g].creator_id)

====
